---- MODULE Spec2Model ----
(***************************************************************************)
(* Zone memory allocator of PrBoom (src/src/z_zone.c): tagged blocks kept  *)
(* in one circular doubly-linked list per tag, a purge ceiling with        *)
(* proactive eviction of PU_CACHE blocks, and reactive eviction when the   *)
(* raw allocator fails, together with Z_Realloc, Z_SetPurgeLimit and the   *)
(* Z_Init / Z_Close life cycle.                                            *)
(*                                                                         *)
(* Spec covers Z_Malloc, Z_Free, Z_FreeTags and Z_ChangeTag; SpecSizes the *)
(* same calls with sizes around the chunk size; SpecSlots the calls that   *)
(* take or affect a user slot; SpecRealloc Z_Realloc and payload contents; *)
(* SpecLife the purge limit and the life cycle.                            *)
(*                                                                         *)
(* Block headers live at the addresses of BlockAddrs; the pointer handed   *)
(* to callers is the header address plus HEADER_SIZE.  All byte counts are *)
(* below 2^31, where the (int) casts of Z_Malloc are exact.                *)
(***************************************************************************)
EXTENDS Integers, Sequences, FiniteSets, TLC

\* ---------------------------------------------------------------- bounds
\* number of block headers the raw allocator can hand out at one time
MaxBlocks == 3

\* ------------------------------------------------------------- constants
NULL == 0
CHUNK_SIZE == 32
\* sizeof(memblock_t): two pointers, a size_t and a byte, padded (LP64)
SizeofMemblock == 32
\* purge tags of z_zone.h, reduced to the two reserved tags and one
\* ordinary tag between them; PU_CACHE is the last tag before PU_MAX
PU_FREE == 0
PU_STATIC == 1
PU_CACHE == 2
PU_MAX == 3
\* default purge limit of a MEMORY_LOW build: 16*1024*1024
DefaultMemorySize == 16777216
\* #define MIN_MEMORY_SIZE (8*1024*1024)
MIN_MEMORY_SIZE == 8388608

\* x & ~(CHUNK_SIZE-1)
ChunkMask(x) == x - (x % CHUNK_SIZE)
\* RoundToChunk adding a whole chunk before masking
RoundToChunk_AddsWholeChunk(x) == ChunkMask(x + CHUNK_SIZE)

\* (x+CHUNK_SIZE-1) & ~(CHUNK_SIZE-1)
RoundToChunk(x) == ChunkMask(x + CHUNK_SIZE - 1)
HEADER_SIZE == RoundToChunk(SizeofMemblock)

Tags == PU_FREE .. (PU_MAX - 1)
BlockAddrs == {k * 2 * HEADER_SIZE : k \in 1 .. MaxBlocks}
\* (uint8_t*) block + HEADER_SIZE
Payload(block) == block + HEADER_SIZE
\* (memblock_t *)((uint8_t*) p - HEADER_SIZE)
BlockOf(p) == p - HEADER_SIZE

\* ---------------------------------------------------------------- inputs
\* request sizes: zero, one that needs rounding, and one of 6 MiB, three
\* of which do not fit under the default purge limit
Sizes == {0, 10, 6 * 1048576}
\* raw-allocator failures at the start of one Z_Malloc call: none, one, or
\* two (the second failure always finds the CACHE bucket empty and ends the
\* call in I_Error, so more failures add no behaviour)
Fails == {0, 1, 2}
\* request sizes around the chunk size: one below it, the chunk size itself
\* and one between one and two chunks
SmallSizes == {10, CHUNK_SIZE, 40}
\* request sizes of the destination-slot specification: zero and 6 MiB
SlotSizes == {0, 6 * 1048576}
\* sizes passed to Z_Realloc: below one chunk and between one and two
ReallocSizes == {10, 40}
\* the request size of the life-cycle specification
LifeSizes == {10}
\* arguments of Z_SetPurgeLimit: zero, the last value below the floor, the
\* floor and the default limit
PurgeLimits == {0, MIN_MEMORY_SIZE - 1, MIN_MEMORY_SIZE, DefaultMemorySize}
\* tags a caller may allocate under (spec 4.2: valid and not PU_FREE)
AllocTags == (PU_FREE + 1) .. PU_CACHE
\* arguments of Z_FreeTags: from PU_FREE (clamped up) to PU_MAX (clamped
\* down), in either order
TagArgs == PU_FREE .. PU_MAX

\* destination slots (void **user) the caller holds; a call passes the
\* address of one of them or NULL
Slots == {1}
UserArgs == {NULL} \cup Slots
\* the builds of z_zone.c: with or without MEMORY_LOW, with or without _WIN32
Builds == [MEMORY_LOW : BOOLEAN, WIN32 : BOOLEAN]

\* contents of memory that is not allocated
Junk == [next |-> NULL, prev |-> NULL, size |-> 0, tag |-> 0]

\* payload bytes are followed at these offsets: the first byte and the
\* bytes on either side of every request size and rounded size in use
Probes == {0, 9, 10, 31, 32, 39, 40, 63}
\* a byte that was never written: malloc returns uninitialised memory
Indeterminate == 0 - 1
Unwritten == [i \in Probes |-> Indeterminate]
\* the bytes a caller writes into a payload: non-zero and different at
\* neighbouring offsets
Pattern(i) == 1 + (i % 7)
\* memcpy(dst, src, n) and memset(dst + from, c, n) on the followed bytes
Memcpy(dst, src, n) == [i \in Probes |-> IF i < n THEN src[i] ELSE dst[i]]
Memset(dst, from, c, n) ==
  [i \in Probes |-> IF i >= from /\ i < from + n THEN c ELSE dst[i]]

VARIABLES
  blockbytag,   \* static memblock_t *blockbytag[PU_MAX]
  mem,          \* the memblock_t header at each block address
  allocated,    \* block addresses handed out by malloc and not yet freed
  memory_size,  \* static int memory_size
  free_memory,  \* static int free_memory
  joined,       \* per tag, its blocks in the order they joined the bucket
  fatal,        \* I_Error has been reported
  call,         \* the last call that changed the allocator: arguments, result, blocks freed
  slot,         \* the value of each destination slot of the caller
  data,         \* the payload bytes of each block at the offsets of Probes
  build,        \* the preprocessor configuration: MEMORY_LOW, _WIN32
  running,      \* between Z_Init and Z_Close
  undefined     \* a call has read or freed a block that was already freed

vars ==
  <<blockbytag, mem, allocated, memory_size, free_memory, joined, fatal, call,
    slot, data, build, running, undefined>>

\* the shape of the state: memblock_t headers, the bucket heads, the two
\* counters
TypeOK ==
  /\ blockbytag \in [Tags -> BlockAddrs \cup {NULL}]
  /\ mem \in [BlockAddrs -> [next : BlockAddrs \cup {NULL}, prev : BlockAddrs \cup {NULL},
                              size : Nat, tag : Tags]]
  /\ allocated \subseteq BlockAddrs
  /\ memory_size \in Nat
  /\ free_memory \in Int
  /\ joined \in [Tags -> Seq(BlockAddrs)]
  /\ fatal \in BOOLEAN
  /\ slot \in [Slots -> {NULL} \cup {Payload(b) : b \in BlockAddrs}]
  /\ data \in [BlockAddrs -> [Probes -> Int]]
  /\ build \in Builds
  /\ running \in BOOLEAN
  /\ undefined \in BOOLEAN

\* the allocator state as one value, with the log of the running call
Cur ==
  [blockbytag |-> blockbytag, mem |-> mem, allocated |-> allocated,
   memory_size |-> memory_size, free_memory |-> free_memory,
   joined |-> joined, fatal |-> FALSE, ret |-> NULL,
   freed |-> <<>>, proactive |-> 0, requests |-> 0,
   slot |-> slot, data |-> data, running |-> running, undefined |-> FALSE,
   evicted |-> <<>>]

\* ------------------------------------------------------- sequence helpers
Range(s) == {s[i] : i \in 1 .. Len(s)}
Remove(s, x) == SelectSeq(s, LAMBDA y : y # x)
IsPrefix(s, t) == Len(s) <= Len(t) /\ \A i \in 1 .. Len(s) : s[i] = t[i]
NoDup(s) == \A i, j \in 1 .. Len(s) : s[i] = s[j] => i = j

\* -------------------------------------------------------------- unlink
\* Unlink without the second branch: the head is not advanced when the
\* head of a bucket with other members is removed
Unlink_HeadNotAdvanced(st, block) ==
  LET b == st.mem[block]
      bbt == IF block = b.next
               THEN [st.blockbytag EXCEPT ![b.tag] = NULL]
               ELSE st.blockbytag
      mem1 == [st.mem EXCEPT ![b.prev].next = b.next]
      mem2 == [mem1 EXCEPT ![mem1[block].next].prev = mem1[block].prev]
  IN [st EXCEPT !.blockbytag = bbt, !.mem = mem2,
                !.joined[b.tag] = Remove(st.joined[b.tag], block)]

\* the unlinking code shared by Z_Free and Z_ChangeTag
Unlink(st, block) ==
  LET b == st.mem[block]
      \* if (block == block->next) blockbytag[tag] = NULL;
      \* else if (blockbytag[tag] == block) blockbytag[tag] = block->next;
      bbt == IF block = b.next
               THEN [st.blockbytag EXCEPT ![b.tag] = NULL]
               ELSE IF st.blockbytag[b.tag] = block
                      THEN [st.blockbytag EXCEPT ![b.tag] = b.next]
                      ELSE st.blockbytag
      \* block->prev->next = block->next;
      mem1 == [st.mem EXCEPT ![b.prev].next = b.next]
      \* block->next->prev = block->prev;
      mem2 == [mem1 EXCEPT ![mem1[block].next].prev = mem1[block].prev]
  IN [st EXCEPT !.blockbytag = bbt, !.mem = mem2,
                !.joined[b.tag] = Remove(st.joined[b.tag], block)]

\* -------------------------------------------------------------- Z_Free
\* Z_Free crediting the header along with the payload
Z_Free_CreditsHeader(st, p) ==
  LET block == BlockOf(p) IN
  IF p = NULL THEN st
  ELSE
    LET st1 == Unlink(st, block) IN
    [st1 EXCEPT
       !.free_memory = st1.free_memory + st1.mem[block].size + HEADER_SIZE,
       !.mem[block] = Junk,
       !.data[block] = Unwritten,
       !.allocated = st1.allocated \ {block},
       !.freed = Append(st1.freed, block)]

\* Z_Free clearing the destination slots that hold the freed address, as
\* the zone allocator this one derives from did through block->user
Z_Free_ClearsSlot(st, p) ==
  LET block == BlockOf(p) IN
  IF p = NULL THEN st
  ELSE
    LET st1 == Unlink(st, block) IN
    [st1 EXCEPT
       !.free_memory = st1.free_memory + st1.mem[block].size,
       !.mem[block] = Junk,
       !.data[block] = Unwritten,
       !.slot = [u \in Slots |-> IF st1.slot[u] = p THEN NULL ELSE st1.slot[u]],
       !.allocated = st1.allocated \ {block},
       !.freed = Append(st1.freed, block)]

\* Z_Free(p) on a block that is allocated: unlink from the bucket of its
\* tag, credit the budget, release the header.
Z_Free(st, p) ==
  LET block == BlockOf(p) IN
  IF p = NULL THEN st
  ELSE
    LET st1 == Unlink(st, block) IN
    [st1 EXCEPT
       \* free_memory += block->size;
       !.free_memory = st1.free_memory + st1.mem[block].size,
       \* (free)(block);
       !.mem[block] = Junk,
       !.data[block] = Unwritten,
       !.allocated = st1.allocated \ {block},
       !.freed = Append(st1.freed, block)]

\* ---------------------------------------------------------- Z_FreeTags
\* FreeTagLoop leaving the loop one block early, before the tail is freed
RECURSIVE FreeTagLoop_StopsBeforeTail(_, _, _)
FreeTagLoop_StopsBeforeTail(st, block, end_block) ==
  LET next == st.mem[block].next
      st1 == Z_Free(st, Payload(block))
  IN IF block = end_block \/ next = end_block
       THEN st1
       ELSE FreeTagLoop_StopsBeforeTail(st1, next, end_block)

\* the while (1) loop over one bucket: free blocks from the head up to and
\* including the tail snapshotted before the loop
RECURSIVE FreeTagLoop(_, _, _)
FreeTagLoop(st, block, end_block) ==
  LET next == st.mem[block].next
      st1 == Z_Free(st, Payload(block))
  IN IF block = end_block THEN st1 ELSE FreeTagLoop(st1, next, end_block)

\* for (;lowtag <= hightag; lowtag++)
RECURSIVE FreeTagsFor(_, _, _)
FreeTagsFor(st, lowtag, hightag) ==
  IF lowtag <= hightag
    THEN LET block == st.blockbytag[lowtag]
             st1 == IF block = NULL
                      THEN st
                      ELSE FreeTagLoop(st, block, st.mem[block].prev)
         IN FreeTagsFor(st1, lowtag + 1, hightag)
    ELSE st

\* ClampLow without the clamp
ClampLow_NoClamp(lowtag) == lowtag

ClampLow(lowtag) == IF lowtag <= PU_FREE THEN PU_FREE + 1 ELSE lowtag
ClampHigh(hightag) == IF hightag > PU_CACHE THEN PU_CACHE ELSE hightag

Z_FreeTags(st, lowtag, hightag) ==
  FreeTagsFor(st, ClampLow(lowtag), ClampHigh(hightag))

\* ---------------------------------------------------------- link at tail
\* LinkTail that also moves the head to the new block: a link at the front
LinkTail_AtHead(st, block, tag) ==
  IF st.blockbytag[tag] = NULL
    THEN [st EXCEPT !.blockbytag[tag] = block,
                    !.mem[block].next = block,
                    !.mem[block].prev = block,
                    !.joined[tag] = Append(st.joined[tag], block)]
    ELSE LET head == st.blockbytag[tag]
             mem1 == [st.mem EXCEPT ![st.mem[head].prev].next = block]
             mem2 == [mem1 EXCEPT ![block].prev = mem1[head].prev]
             mem3 == [mem2 EXCEPT ![block].next = head]
             mem4 == [mem3 EXCEPT ![head].prev = block]
         IN [st EXCEPT !.mem = mem4, !.blockbytag[tag] = block,
                       !.joined[tag] = Append(st.joined[tag], block)]

\* the linking code shared by Z_Malloc and Z_ChangeTag
LinkTail(st, block, tag) ==
  IF st.blockbytag[tag] = NULL
    THEN \* blockbytag[tag] = block; block->next = block->prev = block;
         [st EXCEPT !.blockbytag[tag] = block,
                    !.mem[block].next = block,
                    !.mem[block].prev = block,
                    !.joined[tag] = Append(st.joined[tag], block)]
    ELSE LET head == st.blockbytag[tag]
             \* blockbytag[tag]->prev->next = block;
             mem1 == [st.mem EXCEPT ![st.mem[head].prev].next = block]
             \* block->prev = blockbytag[tag]->prev;
             mem2 == [mem1 EXCEPT ![block].prev = mem1[head].prev]
             \* block->next = blockbytag[tag];
             mem3 == [mem2 EXCEPT ![block].next = head]
             \* blockbytag[tag]->prev = block;
             mem4 == [mem3 EXCEPT ![head].prev = block]
         IN [st EXCEPT !.mem = mem4, !.joined[tag] = Append(st.joined[tag], block)]

\* --------------------------------------------------------- Z_ChangeTag
Z_ChangeTag(st, ptr, tag) ==
  LET block == BlockOf(ptr) IN
  IF ptr = NULL THEN st
  ELSE IF tag = st.mem[block].tag THEN st
  ELSE
    LET st1 == Unlink(st, block)
        st2 == LinkTail(st1, block, tag)
    IN \* block->tag = tag;
       [st2 EXCEPT !.mem[block].tag = tag]

\* ------------------------------------------------------------ Z_Malloc
\* ProactiveLoop without the headroom test: it runs to the snapshotted tail
RECURSIVE ProactiveLoop_IgnoresHeadroom(_, _, _, _)
ProactiveLoop_IgnoresHeadroom(st, block, end_block, need) ==
  LET next == st.mem[block].next
      st1 == Z_Free(st, Payload(block))
  IN IF block = end_block
       THEN st1
       ELSE ProactiveLoop_IgnoresHeadroom(st1, next, end_block, need)

\* ProactiveLoop leaving the loop after the first eviction
ProactiveLoop_StopsAfterOne(st, block, end_block, need) ==
  Z_Free(st, Payload(block))

\* the while (1) loop of the proactive pass: free CACHE blocks from the
\* head until the headroom covers `need` or the snapshotted tail is freed
RECURSIVE ProactiveLoop(_, _, _, _)
ProactiveLoop(st, block, end_block, need) ==
  LET next == st.mem[block].next
      st1 == Z_Free(st, Payload(block))
  IN IF (st1.free_memory + st1.memory_size >= need) \/ block = end_block
       THEN st1
       ELSE ProactiveLoop(st1, next, end_block, need)

\* ProactiveNeeded without the memory_size > 0 test
ProactiveNeeded_NoCeilingTest(st, size) ==
  st.free_memory + st.memory_size < size + HEADER_SIZE

\* if (memory_size > 0 && free_memory + memory_size < (int)(size + HEADER_SIZE))
ProactiveNeeded(st, size) ==
  st.memory_size > 0 /\ st.free_memory + st.memory_size < size + HEADER_SIZE

ProactivePass(st, size) ==
  LET block == st.blockbytag[PU_CACHE]
      st1 == IF ProactiveNeeded(st, size) /\ block # NULL
               THEN ProactiveLoop(st, block, st.mem[block].prev, size + HEADER_SIZE)
               ELSE st
  IN [st1 EXCEPT !.proactive = Len(st1.freed)]

\* (malloc)(size + HEADER_SIZE): the raw allocator fails the first `fails`
\* requests of the call and whenever every address is in use; otherwise it
\* serves the request first-fit, at the lowest address not in use (block
\* addresses are interchangeable: z_zone.c never orders or inspects them)
RawMalloc(st, fails) ==
  IF fails > 0 \/ st.allocated = BlockAddrs THEN NULL
  ELSE CHOOSE a \in BlockAddrs \ st.allocated :
         \A b \in BlockAddrs \ st.allocated : a <= b

\* RetryLoop reporting the failure without looking at the CACHE bucket
RetryLoop_NoEviction(st, fails) ==
  LET block == RawMalloc(st, fails)
      st0 == [st EXCEPT !.requests = @ + 1]
  IN IF block # NULL
       THEN [st0 EXCEPT !.ret = block, !.allocated = @ \cup {block}]
       ELSE [st0 EXCEPT !.fatal = TRUE]

\* RetryLoop purging from PU_STATIC up instead of PU_CACHE alone
RECURSIVE RetryLoop_PurgesStatic(_, _)
RetryLoop_PurgesStatic(st, fails) ==
  LET block == RawMalloc(st, fails)
      st0 == [st EXCEPT !.requests = @ + 1]
  IN IF block # NULL
       THEN [st0 EXCEPT !.ret = block, !.allocated = @ \cup {block}]
       ELSE IF st0.blockbytag[PU_CACHE] = NULL
              THEN [st0 EXCEPT !.fatal = TRUE]
              ELSE RetryLoop_PurgesStatic(Z_FreeTags(st0, PU_STATIC, PU_CACHE),
                                          IF fails > 0 THEN fails - 1 ELSE 0)

\* RetryLoop that purges and retries once more when it finds the CACHE
\* bucket empty, reporting the failure only on a second empty bucket
RECURSIVE RetryLoop_RetriesOnEmpty(_, _)
RetryLoop_RetriesOnEmpty(st, fails) ==
  LET block == RawMalloc(st, fails)
      st0 == [st EXCEPT !.requests = @ + 1]
  IN IF block # NULL
       THEN [st0 EXCEPT !.ret = block, !.allocated = @ \cup {block}]
       ELSE IF st0.blockbytag[PU_CACHE] = NULL /\ st0.requests >= 3
              THEN [st0 EXCEPT !.fatal = TRUE]
              ELSE RetryLoop_RetriesOnEmpty(Z_FreeTags(st0, PU_CACHE, PU_CACHE),
                                            IF fails > 0 THEN fails - 1 ELSE 0)

\* while (!(block = (malloc)(size + HEADER_SIZE))) { ... }
RECURSIVE RetryLoop(_, _)
RetryLoop(st, fails) ==
  LET block == RawMalloc(st, fails)
      st0 == [st EXCEPT !.requests = @ + 1]
  IN IF block # NULL
       THEN [st0 EXCEPT !.ret = block, !.allocated = @ \cup {block}]
       ELSE IF st0.blockbytag[PU_CACHE] = NULL
              THEN \* I_Error("Z_Malloc: Failure trying to allocate ...")
                   [st0 EXCEPT !.fatal = TRUE]
              ELSE RetryLoop(Z_FreeTags(st0, PU_CACHE, PU_CACHE),
                             IF fails > 0 THEN fails - 1 ELSE 0)

\* Z_Malloc returning NULL for size 0 without writing through user
Z_Malloc_ZeroKeepsSlot(st, size, tag, user, fails) ==
  IF size = 0 THEN st
  ELSE
    LET sz == RoundToChunk(size)
        st1 == ProactivePass(st, sz)
        st2 == RetryLoop(st1, fails)
        block == st2.ret
        st3 == LinkTail(st2, block, tag)
    IN IF st2.fatal THEN st2
       ELSE [st3 EXCEPT
               !.mem[block].size = sz,
               !.free_memory = st3.free_memory - sz,
               !.mem[block].tag = tag,
               !.data[block] = Unwritten,
               !.slot = IF user # NULL
                          THEN [st3.slot EXCEPT ![user] = Payload(block)]
                          ELSE st3.slot,
               !.ret = Payload(block)]

Z_Malloc(st, size, tag, user, fails) ==
  IF size = 0
    THEN \* return user ? *user = NULL : NULL;
         IF user # NULL THEN [st EXCEPT !.slot[user] = NULL] ELSE st
  ELSE
    LET sz == RoundToChunk(size)
        st1 == ProactivePass(st, sz)
        st2 == RetryLoop(st1, fails)
        block == st2.ret
        st3 == LinkTail(st2, block, tag)
    IN IF st2.fatal THEN st2
       ELSE [st3 EXCEPT
               \* block->size = size; free_memory -= block->size;
               !.mem[block].size = sz,
               !.free_memory = st3.free_memory - sz,
               \* block->tag = tag;
               !.mem[block].tag = tag,
               \* the payload is as malloc left it
               !.data[block] = Unwritten,
               \* if (user) *user = block;
               !.slot = IF user # NULL
                          THEN [st3.slot EXCEPT ![user] = Payload(block)]
                          ELSE st3.slot,
               !.ret = Payload(block)]

\* ----------------------------------------------------------- Z_Realloc
\* Z_Realloc after its first line: st1 is the allocator as the Z_Malloc of
\* the first line left it, st1.ret the new block p
CopyAndFree(st1, ptr, n, user) ==
  LET p == st1.ret
      block == BlockOf(ptr)
  IN IF st1.fatal \/ ptr = NULL THEN st1
     ELSE IF block \in Range(st1.freed)
       THEN \* ptr was freed by the Z_Malloc above: block->size and the
            \* payload are read from freed memory and (Z_Free)(ptr) unlinks
            \* and frees the block a second time (or, where the raw
            \* allocator handed the same address out again, the new block)
            [st1 EXCEPT !.undefined = TRUE]
       ELSE
         LET size == st1.mem[block].size
             src == st1.data[block]
             dst == st1.data[BlockOf(p)]
             bytes == IF n <= size
                        THEN \* memcpy(p, ptr, n);
                             Memcpy(dst, src, n)
                        ELSE \* memcpy(p, ptr, block->size);
                             \* memset((char*)p+block->size, 0, n - block->size);
                             Memset(Memcpy(dst, src, size), size, 0, n - size)
             st2 == [st1 EXCEPT !.data[BlockOf(p)] = bytes]
             \* (Z_Free)(ptr);
             st3 == Z_Free(st2, ptr)
         IN \* if (user) *user=p;
            [st3 EXCEPT !.slot = IF user # NULL
                                   THEN [st3.slot EXCEPT ![user] = p]
                                   ELSE st3.slot]

\* Z_Realloc(ptr, n, tag, user) with n > 0.  st.evicted is the list of blocks
\* the Z_Malloc of the first line freed.
Z_Realloc(st, ptr, n, tag, user, fails) ==
  CHOOSE st4 \in
    \* void *p = (Z_Malloc)(n, tag, user);
    { CopyAndFree([st0 EXCEPT !.evicted = st0.freed], ptr, n, user) :
        st0 \in {Z_Malloc(st, n, tag, user, fails)} } : TRUE

\* the caller writes the whole payload of a block it holds
Fill(st, p) ==
  [st EXCEPT !.data[BlockOf(p)] =
     [i \in Probes |-> IF i < st.mem[BlockOf(p)].size
                         THEN Pattern(i) ELSE Indeterminate]]

\* ----------------------------------------------------- Z_SetPurgeLimit
\* Z_SetPurgeLimit testing the floor before the test for an unchanged limit
Z_SetPurgeLimit_FloorFirst(st, size) ==
  IF ~build.MEMORY_LOW THEN st
  ELSE IF size < MIN_MEMORY_SIZE THEN [st EXCEPT !.fatal = TRUE]
  ELSE [st EXCEPT !.memory_size = size]

\* Z_SetPurgeLimit without the floor
Z_SetPurgeLimit_NoFloor(st, size) ==
  IF ~build.MEMORY_LOW THEN st
  ELSE [st EXCEPT !.memory_size = size]

Z_SetPurgeLimit(st, size) ==
  \* #ifdef MEMORY_LOW
  IF ~build.MEMORY_LOW THEN st
  \* if (size == memory_size) return;
  ELSE IF size = st.memory_size THEN st
  \* if (size < MIN_MEMORY_SIZE) I_Error(...): the fatal-error facility ends
  \* execution (spec section 6), so the two assignments after it do not run
  ELSE IF size < MIN_MEMORY_SIZE THEN [st EXCEPT !.fatal = TRUE]
  \* memory_size = size;
  ELSE [st EXCEPT !.memory_size = size]

\* ------------------------------------------------------ Z_Close, Z_Init
\* Z_Close leaving the CACHE bucket out of the range it frees
Z_Close_SkipsCache(st) ==
  LET st1 == IF build.WIN32 THEN st ELSE Z_FreeTags(st, PU_FREE, PU_CACHE - 1)
  IN [st1 EXCEPT !.memory_size = 0, !.free_memory = 0, !.running = FALSE]

Z_Close(st) ==
  \* #if !defined(_WIN32)  Z_FreeTags(PU_FREE, PU_MAX);
  LET st1 == IF build.WIN32 THEN st ELSE Z_FreeTags(st, PU_FREE, PU_MAX)
  IN \* memory_size = 0; free_memory = 0;
     [st1 EXCEPT !.memory_size = 0, !.free_memory = 0, !.running = FALSE]

\* for (i = 0; i < PU_MAX; i++) blockbytag[i] = NULL;
Z_Init(st) ==
  [st EXCEPT !.blockbytag = [t \in Tags |-> NULL],
             !.joined = [t \in Tags |-> <<>>],
             !.running = TRUE]

\* ------------------------------------------------------------- actions
Commit(st) ==
  /\ blockbytag' = st.blockbytag
  /\ mem' = st.mem
  /\ allocated' = st.allocated
  /\ memory_size' = st.memory_size
  /\ free_memory' = st.free_memory
  /\ joined' = st.joined
  /\ fatal' = st.fatal
  /\ slot' = st.slot
  /\ data' = st.data
  /\ running' = st.running
  /\ undefined' = st.undefined
  /\ build' = build

LivePayloads == {Payload(b) : b \in allocated}

\* the call changed the allocator or ended in I_Error
Changed(st) ==
  \/ st.blockbytag # blockbytag
  \/ st.mem # mem
  \/ st.allocated # allocated
  \/ st.free_memory # free_memory
  \/ st.memory_size # memory_size
  \/ st.slot # slot
  \/ st.data # data
  \/ st.running # running
  \/ st.fatal
  \/ st.undefined

\* `call` records the last call that changed the allocator: its arguments,
\* its result and the blocks it freed.  A call that changes nothing (size 0,
\* a null pointer, the same tag, an empty range) leaves every variable as
\* it is.
Record(st, rec) == call' = IF Changed(st) THEN rec ELSE call

\* the caller may call: the allocator is initialised and no earlier call
\* ended in I_Error or in undefined behaviour
CanCall == running /\ ~fatal /\ ~undefined

\* a Z_Malloc call with its size and destination slot drawn from the given
\* sets
Malloc(sizes, users) ==
  /\ CanCall
  /\ \E size \in sizes, tag \in AllocTags, user \in users :
       \* no raw request is made for size 0
       \E fails \in IF size = 0 THEN {0} ELSE Fails :
         \E st \in {Z_Malloc(Cur, size, tag, user, fails)} :
           /\ Commit(st)
           /\ Record(st, [op |-> "Z_Malloc", size |-> size, tag |-> tag,
                          user |-> user, ret |-> st.ret, freed |-> st.freed,
                          proactive |-> st.proactive, requests |-> st.requests])

\* Z_Malloc(size, tag, NULL)
DoMalloc == Malloc(Sizes, {NULL})

DoFree ==
  /\ CanCall
  /\ \E p \in LivePayloads \cup {NULL} :
       \E st \in {Z_Free(Cur, p)} :
         /\ Commit(st)
         /\ Record(st, [op |-> "Z_Free", ptr |-> p, freed |-> st.freed])

DoFreeTags ==
  /\ CanCall
  /\ \E lowtag \in TagArgs, hightag \in TagArgs :
       \E st \in {Z_FreeTags(Cur, lowtag, hightag)} :
         /\ Commit(st)
         /\ Record(st, [op |-> "Z_FreeTags", lowtag |-> lowtag, hightag |-> hightag,
                        freed |-> st.freed])

DoChangeTag ==
  /\ CanCall
  /\ \E p \in LivePayloads \cup {NULL}, tag \in Tags :
       \E st \in {Z_ChangeTag(Cur, p, tag)} :
         /\ Commit(st)
         /\ Record(st, [op |-> "Z_ChangeTag", ptr |-> p, tag |-> tag,
                        freed |-> st.freed])

\* Z_Malloc(size, tag, NULL) with sizes around the chunk size
DoMallocSmall == Malloc(SmallSizes, {NULL})

\* Z_Malloc(size, tag, user) with and without a destination slot
DoMallocUser == Malloc(SlotSizes, UserArgs)

DoRealloc ==
  /\ CanCall
  /\ \E p \in LivePayloads \cup {NULL}, n \in ReallocSizes,
        tag \in AllocTags, user \in Slots, fails \in Fails :
       \E st \in {Z_Realloc(Cur, p, n, tag, user, fails)} :
         /\ Commit(st)
         /\ Record(st, [op |-> "Z_Realloc", ptr |-> p, n |-> n, tag |-> tag,
                        user |-> user, ret |-> st.ret, freed |-> st.freed,
                        evicted |-> st.evicted])

DoFill ==
  /\ CanCall
  /\ \E p \in LivePayloads :
       \E st \in {Fill(Cur, p)} :
         /\ Commit(st)
         /\ Record(st, [op |-> "Fill", ptr |-> p])

\* Z_Malloc(size, tag, NULL) with one size
DoMallocOne == Malloc(LifeSizes, {NULL})

DoSetPurgeLimit ==
  /\ ~fatal /\ ~undefined
  /\ \E size \in PurgeLimits :
       \E st \in {Z_SetPurgeLimit(Cur, size)} :
         /\ Commit(st)
         /\ Record(st, [op |-> "Z_SetPurgeLimit", size |-> size])

\* teardown
DoClose ==
  /\ CanCall
  /\ \E st \in {Z_Close(Cur)} :
       /\ Commit(st)
       /\ Record(st, [op |-> "Z_Close", freed |-> st.freed])

\* re-initialisation after teardown
DoInit ==
  /\ ~running /\ ~fatal /\ ~undefined
  /\ \E st \in {Z_Init(Cur)} :
       /\ Commit(st)
       /\ Record(st, [op |-> "Z_Init"])

\* Z_Init, and the initial value of memory_size in a build without and
\* with MEMORY_LOW
InitIn(builds) ==
  /\ build \in builds
  /\ blockbytag = [t \in Tags |-> NULL]
  /\ mem = [a \in BlockAddrs |-> Junk]
  /\ allocated = {}
  /\ memory_size = (IF build.MEMORY_LOW THEN DefaultMemorySize ELSE 0)
  /\ free_memory = 0
  /\ joined = [t \in Tags |-> <<>>]
  /\ fatal = FALSE
  /\ call = [op |-> "Z_Init"]
  /\ slot = [u \in Slots |-> NULL]
  /\ data = [a \in BlockAddrs |-> Unwritten]
  /\ running = TRUE
  /\ undefined = FALSE

\* Z_Close is not among the calls of this specification, so the two _WIN32
\* builds behave as the other two
Init == InitIn({b \in Builds : ~b.WIN32})

Next == DoMalloc \/ DoFree \/ DoFreeTags \/ DoChangeTag

Spec == Init /\ [][Next]_vars

\* allocation with sizes around the chunk size
NextSizes == DoMallocSmall \/ DoFree \/ DoFreeTags \/ DoChangeTag

SpecSizes == Init /\ [][NextSizes]_vars

\* destination slots: allocation with and without a slot under the
\* sizes that reach the ceiling
NextSlots == DoMallocUser \/ DoFree \/ DoFreeTags

SpecSlots == Init /\ [][NextSlots]_vars

\* reallocation of written and unwritten blocks through a destination
\* slot, in the build without ceiling; Z_Realloc(NULL, ...) allocates
InitRealloc == InitIn({b \in Builds : ~b.WIN32 /\ ~b.MEMORY_LOW})

NextRealloc == DoRealloc \/ DoFill

SpecRealloc == InitRealloc /\ [][NextRealloc]_vars

\* the life cycle: Z_SetPurgeLimit, Z_Close and Z_Init among allocation,
\* release and retagging, in the builds whose Z_Close frees memory
InitLife == InitIn({b \in Builds : ~b.WIN32})

NextLife ==
  \/ DoMallocOne \/ DoFree \/ DoChangeTag
  \/ DoSetPurgeLimit \/ DoClose \/ DoInit

SpecLife == InitLife /\ [][NextLife]_vars

\* ------------------------------------------------- observing the state
\* the block reached from b by following next n times in memory m
RECURSIVE Follow(_, _, _)
Follow(m, b, n) ==
  IF n = 0 \/ b \notin BlockAddrs THEN b ELSE Follow(m, m[b].next, n - 1)

\* allocated blocks whose tag field is t
Tagged(al, m, t) == {b \in al : m[b].tag = t}

\* the first n blocks of bucket t, from the head along next
Walk(bbt, m, t, n) == [i \in 1 .. n |-> Follow(m, bbt[t], i - 1)]

\* bucket t from the head along next, as long as it has live members
BucketSeq(bbt, al, m, t) ==
  IF bbt[t] = NULL THEN <<>> ELSE Walk(bbt, m, t, Cardinality(Tagged(al, m, t)))

Bucket(t) == BucketSeq(blockbytag, allocated, mem, t)

\* every address reachable from the head of bucket t along next
Reach(t) ==
  IF blockbytag[t] = NULL THEN {}
  ELSE {Follow(mem, blockbytag[t], i) : i \in 0 .. MaxBlocks}

\* the allocator part of a state record
HeapOf(st) ==
  <<st.blockbytag, st.mem, st.allocated, st.memory_size, st.free_memory>>

\* a step of the named operation that changed the allocator
StepOf(op) == call' # call /\ call'.op = op

RECURSIVE SumSizes(_, _)
SumSizes(al, m) ==
  IF al = {} THEN 0
  ELSE LET b == CHOOSE x \in al : TRUE IN m[b].size + SumSizes(al \ {b}, m)

\* ---------------------------------------------------------------- C1
BucketWellFormed(t) ==
  LET members == Tagged(allocated, mem, t)
      n == Cardinality(members)
      head == blockbytag[t]
  IN IF head = NULL
       THEN n = 0
       ELSE /\ n > 0
            /\ Range(Walk(blockbytag, mem, t, n)) = members
            /\ NoDup(Walk(blockbytag, mem, t, n))
            /\ Follow(mem, head, n) = head
            /\ \A b \in members :
                 /\ mem[b].next \in members
                 /\ mem[b].prev \in members
                 /\ mem[mem[b].next].prev = b
                 /\ mem[mem[b].prev].next = b

\* C1: every tag's bucket is a well-formed circular doubly-linked list of
\* exactly the live blocks carrying that tag (no head when there is none;
\* otherwise next from the head visits each once and is back at the head
\* after N steps, and prev inverts next); every live block is reachable from
\* exactly one bucket, and no freed block is reachable from any bucket.
C1_BucketsWellFormed ==
  /\ \A t \in Tags : BucketWellFormed(t)
  /\ \A b \in allocated : Cardinality({t \in Tags : b \in Reach(t)}) = 1
  /\ \A b \in BlockAddrs \ allocated : \A t \in Tags : b \notin Reach(t)

\* after a free out of a bucket of three, the bucket holds two blocks and an
\* address is free
C1_Witness ==
  /\ call.op = "Z_Free"
  /\ allocated # BlockAddrs
  /\ \E t \in Tags : Cardinality(Tagged(allocated, mem, t)) = MaxBlocks - 1

\* ---------------------------------------------------------------- C5
\* C5: the budget counter equals the sum of the sizes of the live blocks:
\* free_memory = -(sum of block.size over allocated blocks).
C5_BudgetIsSumOfSizes == free_memory = 0 - SumSizes(allocated, mem)

\* blocks of both sizes are live after a call that freed a block
C5_Witness ==
  /\ call.op = "Z_FreeTags"
  /\ call.freed # <<>>
  /\ \E a, b \in allocated : mem[a].size # mem[b].size
  /\ free_memory < 0

\* ---------------------------------------------------------------- C2
\* C2: an allocate call with size>0 either returns the non-null payload
\* address of a newly registered live block (not live before the call, or
\* freed during it; linked in the bucket of the requested tag), or reports
\* the fatal error; it never returns null.  The fatal error comes only after
\* a failed raw request with the CACHE bucket empty, so no CACHE-tagged block
\* is live when it is reported.
C2_ReturnsBlockOrFatal ==
  [][(StepOf("Z_Malloc") /\ call'.size > 0) =>
       IF fatal'
         THEN /\ call'.ret = NULL
              /\ call'.requests >= 1
              /\ blockbytag'[PU_CACHE] = NULL
              /\ Tagged(allocated', mem', PU_CACHE) = {}
         ELSE /\ call'.ret # NULL
              /\ LET blk == BlockOf(call'.ret) IN
                   /\ blk \in allocated'
                   /\ blk \notin allocated \/ blk \in Range(call'.freed)
                   /\ mem'[blk].tag = call'.tag
                   /\ blk \in Range(BucketSeq(blockbytag', allocated', mem', call'.tag))
    ]_vars

\* the fatal error after the reactive retry emptied a non-empty CACHE bucket
\* and the raw allocator failed again
C2_Witness ==
  /\ fatal
  /\ call.op = "Z_Malloc"
  /\ call.requests = 2
  /\ call.freed # <<>>

\* ---------------------------------------------------------------- C3
\* the sum of the sizes of the first k blocks of sequence s in memory m
RECURSIVE PrefixSize(_, _, _)
PrefixSize(m, s, k) == IF k = 0 THEN 0 ELSE m[s[k]].size + PrefixSize(m, s, k - 1)

\* the length of the shortest prefix of the CACHE bucket whose eviction
\* brings the headroom to `need`, or the length of the bucket if none does
ShortestPrefix(bucket, need) ==
  LET enough == {k \in 0 .. Len(bucket) :
                   memory_size + free_memory + PrefixSize(mem, bucket, k) >= need}
  IN IF enough = {} THEN Len(bucket)
     ELSE CHOOSE k \in enough : \A j \in enough : k <= j

\* C3: with a non-zero ceiling and headroom (ceiling - used) below the
\* rounded size plus the metadata size, the proactive pass evicts exactly the
\* shortest prefix of the CACHE bucket, taken from the head in bucket order,
\* that brings the headroom to rounded size + metadata size, or the whole
\* bucket if no prefix does.  Bucket order is the order of joining, so no
\* block is evicted while one that joined the bucket before it stays.
C3_ProactiveEvictsOldestPrefix ==
  [][(StepOf("Z_Malloc") /\ call'.size > 0) =>
       LET bucket == BucketSeq(blockbytag, allocated, mem, PU_CACHE)
           need == RoundToChunk(call'.size) + HEADER_SIZE
           evicted == SubSeq(call'.freed, 1, call'.proactive)
       IN /\ bucket = joined[PU_CACHE]
          /\ IsPrefix(evicted, joined[PU_CACHE])
          /\ (memory_size # 0 /\ memory_size + free_memory < need) =>
                evicted = SubSeq(bucket, 1, ShortestPrefix(bucket, need))
    ]_vars

\* the proactive pass evicted the two oldest CACHE blocks and stopped with a
\* younger CACHE block still live
C3_Witness ==
  /\ call.op = "Z_Malloc"
  /\ call.proactive = 2
  /\ Len(call.freed) = 2
  /\ \E b \in Tagged(allocated, mem, PU_CACHE) : Payload(b) # call.ret

\* ---------------------------------------------------------------- C4
\* C4: an allocate call (proactive pass and reactive retry alike) frees no
\* block whose tag is not CACHE: each such block live before the call is
\* live after it with the same tag and size, and each bucket other than
\* CACHE's keeps its members in order (a new block only joins at the tail).
C4_MallocEvictsOnlyCache ==
  [][StepOf("Z_Malloc") =>
       /\ \A b \in allocated :
            mem[b].tag # PU_CACHE =>
              /\ b \in allocated'
              /\ b \notin Range(call'.freed)
              /\ mem'[b].tag = mem[b].tag
              /\ mem'[b].size = mem[b].size
       /\ \A t \in Tags \ {PU_CACHE} :
            IsPrefix(BucketSeq(blockbytag, allocated, mem, t),
                     BucketSeq(blockbytag', allocated', mem', t))
    ]_vars

\* an allocation that evicted CACHE blocks returned while a PU_STATIC block
\* older than the new block is live
C4_Witness ==
  /\ call.op = "Z_Malloc"
  /\ call.freed # <<>>
  /\ ~fatal
  /\ \E b \in Tagged(allocated, mem, PU_STATIC) : Payload(b) # call.ret

\* ------------------------------------------------------------ C6, C7
\* the blocks live before a Z_FreeTags(lowtag, hightag) call whose tag lies
\* in the clamped range [max(lowtag, PU_FREE+1), min(hightag, PU_CACHE)]
InRange(t, lowtag, hightag) ==
  /\ t >= (IF lowtag > PU_FREE + 1 THEN lowtag ELSE PU_FREE + 1)
  /\ t <= (IF hightag < PU_CACHE THEN hightag ELSE PU_CACHE)

\* C6: freeAllInRange frees, exactly once each, every block live at the
\* call whose tag lies in the clamped range, and no other block; on return
\* every bucket of the range is empty and none of those blocks is live.
C6_FreeTagsFreesRange ==
  [][StepOf("Z_FreeTags") =>
       LET target == {b \in allocated :
                        InRange(mem[b].tag, call'.lowtag, call'.hightag)}
       IN /\ Range(call'.freed) = target
          /\ NoDup(call'.freed)
          /\ allocated' = allocated \ target
          /\ \A t \in Tags :
               InRange(t, call'.lowtag, call'.hightag) =>
                 /\ blockbytag'[t] = NULL
                 /\ Tagged(allocated', mem', t) = {}
    ]_vars

\* Z_FreeTags(PU_CACHE, PU_CACHE) freed a CACHE bucket of three members
C6_Witness ==
  /\ call.op = "Z_FreeTags"
  /\ call.lowtag = PU_CACHE
  /\ call.hightag = PU_CACHE
  /\ Len(call.freed) = 3
  /\ blockbytag[PU_CACHE] = NULL

\* C7: freeAllInRange leaves every block whose tag is outside the clamped
\* range live and unchanged, and leaves the buckets outside the range, the
\* FREE bucket among them, with the same head and the same member order,
\* also for lowtag <= PU_FREE, hightag > PU_CACHE and lowtag > hightag (a
\* call with lowtag > hightag changes nothing, checked in every state a
\* freeAllInRange leaves from).
C7_FreeTagsKeepsOthers ==
  [][StepOf("Z_FreeTags") =>
       /\ \A lo \in TagArgs, hi \in TagArgs :
            lo > hi => HeapOf(Z_FreeTags(Cur, lo, hi)) = HeapOf(Cur)
       /\ \A t \in Tags :
            ~InRange(t, call'.lowtag, call'.hightag) =>
              /\ blockbytag'[t] = blockbytag[t]
              /\ BucketSeq(blockbytag', allocated', mem', t)
                   = BucketSeq(blockbytag, allocated, mem, t)
              /\ \A b \in Tagged(allocated, mem, t) :
                   /\ b \in allocated'
                   /\ b \notin Range(call'.freed)
                   /\ mem'[b] = mem[b]
    ]_vars

\* a call with lowtag <= PU_FREE and hightag > PU_CACHE freed blocks while a
\* block sits in the FREE bucket
C7_Witness ==
  /\ call.op = "Z_FreeTags"
  /\ call.lowtag <= PU_FREE
  /\ call.hightag > PU_CACHE
  /\ call.freed # <<>>
  /\ blockbytag[PU_FREE] # NULL

\* ---------------------------------------------------------------- C8
HeapUnchanged ==
  UNCHANGED <<blockbytag, mem, allocated, memory_size, free_memory>>

\* C8: changeTag(p, newTag) on a live block with another tag takes the
\* block out of its old bucket (empty if it was the sole member, head at
\* next if it was the head, the others in order) and makes it the tail of
\* newTag's bucket with tag newTag; size, budget and every other bucket are
\* unchanged and nothing is freed.  With p null or newTag the current tag
\* nothing changes (checked in every state a retag leaves from).  A
\* freeAllInRange that follows and whose range covers the old tag, whichever
\* it was, but not the new one leaves the block live.
C8_ChangeTagMovesBlock ==
  [][/\ StepOf("Z_ChangeTag") =>
          /\ \A t \in Tags :
               HeapOf(Z_ChangeTag(Cur, NULL, t)) = HeapOf(Cur)
          /\ \A p \in LivePayloads :
               HeapOf(Z_ChangeTag(Cur, p, mem[BlockOf(p)].tag)) = HeapOf(Cur)
          /\ IF call'.ptr = NULL \/ call'.tag = mem[BlockOf(call'.ptr)].tag
            THEN HeapUnchanged
            ELSE LET b == BlockOf(call'.ptr)
                     old == mem[b].tag
                     new == call'.tag
                     oldSeq == BucketSeq(blockbytag, allocated, mem, old)
                 IN /\ BucketSeq(blockbytag', allocated', mem', old) = Remove(oldSeq, b)
                    /\ blockbytag'[old] =
                         (IF Len(oldSeq) = 1 THEN NULL
                          ELSE IF blockbytag[old] = b THEN mem[b].next
                          ELSE blockbytag[old])
                    /\ BucketSeq(blockbytag', allocated', mem', new)
                         = Append(BucketSeq(blockbytag, allocated, mem, new), b)
                    /\ mem'[b].tag = new
                    /\ mem'[b].size = mem[b].size
                    /\ UNCHANGED <<allocated, memory_size, free_memory>>
                    /\ call'.freed = <<>>
                    /\ \A t \in Tags \ {old, new} :
                         /\ blockbytag'[t] = blockbytag[t]
                         /\ BucketSeq(blockbytag', allocated', mem', t)
                              = BucketSeq(blockbytag, allocated, mem, t)
     /\ (/\ call.op = "Z_ChangeTag"
         /\ StepOf("Z_FreeTags")
         /\ \E old \in Tags \ {call.tag} :
              InRange(old, call'.lowtag, call'.hightag)
         /\ ~InRange(call.tag, call'.lowtag, call'.hightag)) =>
          /\ BlockOf(call.ptr) \in allocated'
          /\ BlockOf(call.ptr) \notin Range(call'.freed)
    ]_vars

\* the retagged block is now the tail of a bucket that had a member before,
\* and a third block sits in another bucket
C8_Witness ==
  /\ call.op = "Z_ChangeTag"
  /\ \E old \in Tags \ {call.tag} : Len(Bucket(old)) = 1
  /\ Cardinality(allocated) = 3
  /\ Len(Bucket(call.tag)) = 2
  /\ Bucket(call.tag)[Len(Bucket(call.tag))] = BlockOf(call.ptr)

\* ---------------------------------------------------------------- C9
\* C9: in every reachable state the FREE tag's bucket is empty and no live
\* block carries the FREE tag.
C9_FreeBucketEmpty ==
  /\ blockbytag[PU_FREE] = NULL
  /\ Tagged(allocated, mem, PU_FREE) = {}

\* ---------------------------------------------------------------- C10
\* C10 as stated: with ceiling = 0 no allocate call frees any block.
C10_NoEvictionWhenUnlimited ==
  (call.op = "Z_Malloc" /\ memory_size = 0) => call.freed = <<>>

\* C10 amended: with ceiling = 0 the proactive pass of allocate evicts
\* nothing; an allocate call frees blocks only in the reactive retry, after
\* a raw-allocator request of that call has failed.
C10_NoProactiveEvictionWhenUnlimited ==
  (call.op = "Z_Malloc" /\ memory_size = 0) =>
    /\ call.proactive = 0
    /\ call.freed # <<>> => call.requests >= 2

\* with ceiling = 0 an allocation went through without eviction although the
\* live blocks, CACHE blocks among them, exceed the default limit
C10_Witness ==
  /\ call.op = "Z_Malloc"
  /\ memory_size = 0
  /\ call.ret # NULL
  /\ call.freed = <<>>
  /\ 0 - free_memory > DefaultMemorySize
  /\ \E b \in Tagged(allocated, mem, PU_CACHE) : Payload(b) # call.ret

C16_EvictionLoopsBounded ==
  [][/\ StepOf("Z_Malloc") =>
          LET cache == Tagged(allocated, mem, PU_CACHE) IN
          /\ Range(call'.freed) \subseteq cache
          /\ NoDup(call'.freed)
          /\ Len(call'.freed) <= Cardinality(cache)
          /\ call'.requests \in 1 .. 2
          /\ call'.requests = 2 =>
               /\ Range(call'.freed) = cache
               /\ fatal' \/ call'.ret # NULL
          /\ fatal' <=> call'.ret = NULL
     /\ StepOf("Z_FreeTags") =>
          /\ Range(call'.freed) \subseteq allocated
          /\ NoDup(call'.freed)
          /\ Len(call'.freed) <= Cardinality(allocated)
    ]_vars

\* an allocate call whose first raw request failed purged a CACHE bucket of
\* two blocks, one of them already evicted by the proactive pass, and
\* returned a block on the second request
C16_Witness ==
  /\ call.op = "Z_Malloc"
  /\ ~fatal
  /\ call.requests = 2
  /\ Len(call.freed) = 2
  /\ call.proactive = 1

\* ---------------------------------------------------------------- C13
\* C13: the block registered by allocate(size, tag), size > 0, has as its
\* recorded size the smallest multiple of the chunk granularity that is
\* >= size, and is the tail of tag's bucket: the members that were there and
\* were not evicted keep their order before it, the head's prev is the new
\* block and the new block's next is the head; in an empty bucket it is the
\* head, linked to itself.
C13_RoundedSizeLinkedAtTail ==
  [][(StepOf("Z_Malloc") /\ ~fatal') =>
       LET blk == BlockOf(call'.ret)
           sz == mem'[blk].size
           tag == call'.tag
           before == BucketSeq(blockbytag, allocated, mem, tag)
           kept == SelectSeq(before, LAMBDA b : b \notin Range(call'.freed))
       IN /\ sz % CHUNK_SIZE = 0
          /\ sz >= call'.size
          /\ sz - CHUNK_SIZE < call'.size
          /\ BucketSeq(blockbytag', allocated', mem', tag) = Append(kept, blk)
          /\ blockbytag'[tag] = (IF kept = <<>> THEN blk ELSE kept[1])
          /\ mem'[blk].next = blockbytag'[tag]
          /\ mem'[blockbytag'[tag]].prev = blk
          /\ kept = <<>> => mem'[blk].prev = blk
    ]_vars

\* a request of 40 bytes was registered with 64 as the third member of its
\* bucket, behind a block from a request of 32 bytes that has size 32
C13_Witness ==
  /\ call.op = "Z_Malloc"
  /\ call.size = 40
  /\ ~fatal
  /\ mem[BlockOf(call.ret)].size = 64
  /\ Len(Bucket(call.tag)) = 3
  /\ Bucket(call.tag)[3] = BlockOf(call.ret)
  /\ mem[Bucket(call.tag)[2]].size = CHUNK_SIZE

\* ---------------------------------------------------------------- C15
\* C15: in a MEMORY_LOW build setPurgeCeiling(size) with size equal to the
\* ceiling changes nothing and reports no error, also when that value is
\* below the floor (checked for the ceiling of every state a call leaves
\* from); with another size below the 8 MiB floor it reports the fatal
\* error; with any other size the ceiling becomes size and nothing else
\* changes.  In a build without MEMORY_LOW no call changes anything and the
\* ceiling stays 0.
C15_SetPurgeLimit ==
  [][/\ build.MEMORY_LOW =>
          /\ Z_SetPurgeLimit(Cur, memory_size) = Cur
          /\ StepOf("Z_SetPurgeLimit") =>
               /\ call'.size # memory_size
               /\ fatal' <=> call'.size < MIN_MEMORY_SIZE
               /\ ~fatal' => memory_size' = call'.size
               /\ UNCHANGED <<blockbytag, mem, allocated, free_memory, running>>
     /\ ~build.MEMORY_LOW =>
          /\ \A size \in PurgeLimits : Z_SetPurgeLimit(Cur, size) = Cur
          /\ memory_size = 0 /\ memory_size' = 0
          /\ call'.op # "Z_SetPurgeLimit"
    ]_vars

\* the ceiling was raised from 0, where teardown had left it, to the floor
\* while blocks are live
C15_Witness ==
  /\ build.MEMORY_LOW
  /\ call.op = "Z_SetPurgeLimit"
  /\ call.size = MIN_MEMORY_SIZE
  /\ memory_size = MIN_MEMORY_SIZE
  /\ ~fatal
  /\ free_memory = 0
  /\ allocated # {}

\* ---------------------------------------------------------------- C18
\* C18: in a build whose Z_Close frees memory, teardown leaves the bucket
\* of every tag other than FREE empty and no block with such a tag live,
\* has freed each block that carried such a tag exactly once and no other
\* block, and leaves used = 0 and ceiling = 0.
C18_CloseFreesAll ==
  [][(StepOf("Z_Close") /\ ~build.WIN32) =>
       /\ \A t \in Tags \ {PU_FREE} :
            /\ blockbytag'[t] = NULL
            /\ Tagged(allocated', mem', t) = {}
       /\ Range(call'.freed) = {b \in allocated : mem[b].tag # PU_FREE}
       /\ NoDup(call'.freed)
       /\ allocated' = {b \in allocated : mem[b].tag = PU_FREE}
       /\ free_memory' = 0
       /\ memory_size' = 0
    ]_vars

\* teardown freed two blocks, one of them CACHE-tagged, in a build with a
\* ceiling
C18_Witness ==
  /\ call.op = "Z_Close"
  /\ ~running
  /\ build.MEMORY_LOW
  /\ Len(call.freed) = 2
  /\ memory_size = 0
  /\ free_memory = 0
  /\ allocated # {}

\* ---------------------------------------------------------------- C20
\* C20 as stated: in a MEMORY_LOW build the ceiling is at least the 8 MiB
\* floor in every state reached without the fatal error.
C20_CeilingAtLeastFloor ==
  (build.MEMORY_LOW /\ ~fatal) => memory_size >= MIN_MEMORY_SIZE

\* C20 amended: in a MEMORY_LOW build the ceiling is at least the floor
\* until teardown; no setPurgeCeiling call that does not end in the fatal
\* error leaves it below the floor; Z_Close sets it to 0, Z_Init does not
\* restore it, and it stays 0 or is at least the floor from then on.
C20_CeilingBelowFloorOnlyAfterClose ==
  /\ build.MEMORY_LOW => memory_size >= MIN_MEMORY_SIZE
  /\ [][build.MEMORY_LOW =>
          \/ memory_size' >= MIN_MEMORY_SIZE
          \/ /\ memory_size' = 0
             /\ StepOf("Z_Close") \/ memory_size = 0
             /\ call'.op # "Z_SetPurgeLimit" \/ fatal'
       ]_vars

\* after teardown and re-initialisation a block was allocated with the
\* ceiling at 0 in a MEMORY_LOW build
C20_Witness ==
  /\ build.MEMORY_LOW
  /\ running
  /\ memory_size = 0
  /\ call.op = "Z_Malloc"
  /\ ~fatal

\* ---------------------------------------------------------------- C12
\* C12: reallocate(p, n, tag, slot) with p a live block and n > 0 returns a
\* new live block, the tail of tag's bucket, whose first min(n, old size)
\* payload bytes equal the old payload's and whose bytes from the old size up
\* to n are zero; afterwards the old block is in no bucket and slot, if
\* supplied, holds the returned address.
C12_ReallocCopiesPayload ==
  [][(StepOf("Z_Realloc") /\ call'.ptr # NULL /\ ~fatal') =>
       LET old == BlockOf(call'.ptr)
           new == BlockOf(call'.ret)
           n == call'.n
           size == mem[old].size
           bucket == BucketSeq(blockbytag', allocated', mem', call'.tag)
       IN /\ ~undefined'
          /\ call'.ret # NULL
          /\ new \in allocated'
          /\ new \notin allocated \/ new \in Range(call'.freed)
          /\ bucket # <<>> /\ bucket[Len(bucket)] = new
          /\ \A i \in Probes :
               /\ (i < n /\ i < size) => data'[new][i] = data[old][i]
               /\ (i >= size /\ i < n) => data'[new][i] = 0
          /\ old \in Range(call'.freed)
          /\ new # old => \A t \in Tags :
               old \notin Range(BucketSeq(blockbytag', allocated', mem', t))
          /\ call'.user # NULL => slot'[call'.user] = call'.ret
    ]_vars

\* ---------------------------------------------------------------- C17
\* C17: during reallocate(p, n, tag, slot) with p a live block of any tag
\* the allocation of the new block never frees the old block, so the old
\* block is live when its payload is copied; it is freed exactly once, and
\* the bucket and budget invariants hold after the call.
C17_ReallocKeepsOldBlockUntilCopy ==
  [][(StepOf("Z_Realloc") /\ call'.ptr # NULL) =>
       LET old == BlockOf(call'.ptr) IN
       /\ old \notin Range(call'.evicted)
       /\ ~undefined'
       /\ ~fatal' =>
            Cardinality({i \in 1 .. Len(call'.freed) : call'.freed[i] = old}) = 1
       /\ C1_BucketsWellFormed'
       /\ C5_BudgetIsSumOfSizes'
    ]_vars

\* ---------------------------------------------------------------- C14
\* C14: allocate(0, tag, slot) returns null, writes null into slot if one
\* was supplied and changes nothing else: no bucket, block or counter
\* changes, no raw request is made and no block is evicted, also under a
\* ceiling whose headroom is exhausted (checked for every tag and slot in
\* every state an allocation leaves from).
C14_ZeroSizeClearsSlotOnly ==
  [][StepOf("Z_Malloc") =>
       /\ \A tag \in AllocTags, user \in UserArgs :
            LET st == Z_Malloc(Cur, 0, tag, user, 0) IN
            /\ st.ret = NULL
            /\ HeapOf(st) = HeapOf(Cur)
            /\ st.data = data
            /\ st.requests = 0 /\ st.freed = <<>> /\ ~st.fatal
            /\ \A u \in Slots : st.slot[u] = (IF u = user THEN NULL ELSE slot[u])
       /\ call'.size = 0 =>
            /\ call'.ret = NULL
            /\ call'.user # NULL
            /\ slot[call'.user] # NULL /\ slot'[call'.user] = NULL
            /\ HeapUnchanged
            /\ data' = data
            /\ call'.requests = 0 /\ call'.freed = <<>> /\ ~fatal'
    ]_vars

\* a zero-size call cleared the slot under the ceiling with more than the
\* ceiling charged and a CACHE block live
C14_Witness ==
  /\ call.op = "Z_Malloc"
  /\ call.size = 0
  /\ slot[call.user] = NULL
  /\ memory_size # 0
  /\ memory_size + free_memory < 0
  /\ blockbytag[PU_CACHE] # NULL

====
